---- MODULE Spec2Model ----
(***************************************************************************)
(* Model of ur-connect: the session orchestrator (src/src/client.rs), the  *)
(* HTML discovery heuristics (src/src/parsing/dom.rs) and the calendar     *)
(* feed parser (src/src/parsing/ics.rs).                                   *)
(*                                                                         *)
(* Strings are sequences of lexical tokens (a token is a TLA+ string):     *)
(* "contains", lower-casing, trimming and URL resolution are computed on   *)
(* the token sequences.  None stands for Rust's Option::None.              *)
(***************************************************************************)
EXTENDS Integers, Sequences, FiniteSets, TLC

\* The pure functions are exercised through (arg, ret, fdone): an input, the
\* value returned for it, and whether the function has been applied.
VARIABLES arg, ret, fdone

\* The session orchestrator (client.rs):
\*   pc      where the running call waits: "idle", or the step whose response
\*           is awaited ("start", "post", "landing", "entry", "full", "feed")
\*   call    the method that runs or ran last: "none", "login", "get_timetable"
\*   jar     the names of the cookies the orchestrator added to the cookie jar
\*   sent    the requests the current call has sent, in order
\*   fetched per step, the response the current call received for it, if any
\*   result  what the call returned: [state, err, entries]
\*   loginOk whether some login POST has been answered with a success status
VARIABLES pc, call, jar, sent, fetched, result, loginOk

\* Rust's Option<T>: None is the empty tuple, Some(x) the one-element tuple.
None == <<>>
Some(x) == <<x>>
IsSome(o) == o # <<>>
Unwrap(o) == o[1]

pvars == <<arg, ret, fdone>>
ovars == <<pc, call, jar, sent, fetched, result, loginOk>>
vars == <<arg, ret, fdone, pc, call, jar, sent, fetched, result, loginOk>>

NoFetch == [start |-> None, post |-> None, landing |-> None, entry |-> None,
            full |-> None, feed |-> None]
Pending == [state |-> "pending", err |-> "", entries |-> <<>>]

\* The state after UrConnect::new: nothing sent, an empty jar.
InitClient ==
  /\ pc = "idle"
  /\ call = "none"
  /\ jar = {}
  /\ sent = <<>>
  /\ fetched = NoFetch
  /\ result = Pending
  /\ loginOk = FALSE

\* ------------------------------------------------------------------ bounds
MaxAnchors == 3
MaxFlowNodes == 2
MaxIcsNodes == 2
MaxFeedItems == 3

\* ------------------------------------------------------------ string model
\* str::to_ascii_lowercase, token by token.
LowerTok(t) ==
  CASE t = "_flowId=" -> "_flowid="
    [] t = "_FLOWID=" -> "_flowid="
    [] t = "individualTimetableSchedule-flow" -> "individualtimetableschedule-flow"
    [] t = "INDIVIDUALTIMETABLESCHEDULE-FLOW" -> "individualtimetableschedule-flow"
    [] t = "/qisserver/pages/plan/individualTimetable.xhtml"
         -> "/qisserver/pages/plan/individualtimetable.xhtml"
    [] t = "Stundenplan" -> "stundenplan"
    [] t = "Timetable" -> "timetable"
    [] t = "Logout" -> "logout"
    [] t = "Mein" -> "mein"
    [] t = "iCal" -> "ical"
    [] t = "ICAL" -> "ical"
    [] t = "Calendar" -> "calendar"
    [] t = "calendarExport" -> "calendarexport"
    [] t = "Export" -> "export"
    [] t = "plan.ICS" -> "plan.ics"
    [] t = "Refresh" -> "refresh"
    [] t = "URL=" -> "url="
    [] t = "Content-Type" -> "content-type"
    [] t = "PASSWORD" -> "password"
    [] t = "Text" -> "text"
    [] t = "Email" -> "email"
    [] OTHER -> t

ToAsciiLowercase(s) == [i \in 1..Len(s) |-> LowerTok(s[i])]

\* The sub-strings of interest that lie inside one (lower-case) token.
TokSubstrings(t) ==
  CASE t = "individualtimetableschedule-flow"
         -> {"individualtimetableschedule-flow", "individualtimetable", "timetable"}
    [] t = "/qisserver/pages/plan/individualtimetable.xhtml"
         -> {"individualtimetable", "timetable"}
    [] t = "calendarexport" -> {"calendarexport", "calendar"}
    [] t = "plan.ics" -> {"plan.ics", ".ics"}
    [] t = "/cal.ics" -> {"/cal.ics", ".ics"}
    [] t = "/feed.ics" -> {"/feed.ics", ".ics"}
    [] t = "/export.ics" -> {"/export.ics", ".ics"}
    [] t = "cal_add_1" -> {"cal_add_1", "cal_add"}
    [] t = "ical_x" -> {"ical_x", "ical"}
    [] t = "calendarBox" -> {"calendarBox", "calendar"}
    [] OTHER -> {t}

\* str::contains(pat) for a pattern of consecutive tokens.
Contains(s, pat) ==
  \E i \in 1..(Len(s) - Len(pat) + 1) :
     \A j \in 1..Len(pat) : pat[j] \in TokSubstrings(s[i + j - 1])

WhiteSpace == {" ", "\n", "&nbsp;"}

RECURSIVE SplitWhitespace(_)
SplitWhitespace(s) ==
  IF s = <<>> THEN <<>>
  ELSE IF Head(s) \in WhiteSpace THEN SplitWhitespace(Tail(s))
  ELSE <<Head(s)>> \o SplitWhitespace(Tail(s))

RECURSIVE JoinSpace(_)
JoinSpace(ws) ==
  IF Len(ws) <= 1 THEN ws ELSE <<Head(ws), " ">> \o JoinSpace(Tail(ws))

\* dom.rs normalize_text: decode entities, nbsp -> space, collapse whitespace.
NormalizeText(s) == JoinSpace(SplitWhitespace(s))

RECURSIVE Trim(_)
Trim(s) ==
  IF s = <<>> THEN s
  ELSE IF Head(s) \in WhiteSpace THEN Trim(Tail(s))
  ELSE IF s[Len(s)] \in WhiteSpace THEN Trim(SubSeq(s, 1, Len(s) - 1))
  ELSE s

\* ---------------------------------------------------------------- URL model
BaseUri == <<"https://", "campusportal.ur.de">>
StartPage == BaseUri \o <<"/qisserver/pages/cs/sys/portal/hisinoneStartPage.faces">>
LoginPost == BaseUri \o <<"/qisserver/rds", "?", "state=user&type=1&category=auth.login">>
TimetableBase == BaseUri \o <<"/qisserver/pages/plan/individualTimetable.xhtml">>
FlowId == <<"individualTimetableSchedule-flow">>

SchemeTokens == {"https://", "http://", "mailto:"}
\* Url::scheme().starts_with("http")
SchemeStartsWithHttp(u) == u[1] \in {"https://", "http://"}
\* A token no URL parser accepts (an unterminated IPv6 host).
InvalidTokens == {"//["}

\* Url::parse: Ok only for a string that starts with a scheme and is well formed.
UrlParse(s) ==
  IF s # <<>> /\ s[1] \in SchemeTokens /\ \A i \in 1..Len(s) : s[i] \notin InvalidTokens
  THEN Some(s) ELSE None

\* Url::join: an absolute reference replaces the base, a relative one is
\* resolved against the base's origin.
UrlJoin(base, s) ==
  IF \E i \in 1..Len(s) : s[i] \in InvalidTokens THEN None
  ELSE IF s # <<>> /\ s[1] \in SchemeTokens THEN Some(s)
  ELSE Some(SubSeq(base, 1, 2) \o s)

\* The two-step resolution of dom.rs (lines 93-106 and resolve_url).
ResolveHref(s, base) ==
  LET abs == UrlParse(s) IN
  IF IsSome(abs) /\ SchemeStartsWithHttp(Unwrap(abs)) THEN abs
  ELSE LET joined == UrlJoin(base, s) IN
       IF IsSome(joined) /\ SchemeStartsWithHttp(Unwrap(joined)) THEN joined ELSE None

ResolveUrl(candidate, base) ==
  IF candidate = <<>> THEN None ELSE ResolveHref(candidate, base)

\* client.rs build_timetable_uri
BuildTimetableUri(base, flow_id, flow_key) ==
  base \o <<"?", "_flowId=">> \o flow_id
       \o (IF IsSome(flow_key) THEN <<"&", "_flowExecutionKey=">> \o Unwrap(flow_key)
           ELSE <<>>)

\* ------------------------------------------------------------ document model
\* A parsed page: its input, textarea, a and meta elements in document order
\* and the text outside them.  An input or textarea is
\* [name, id, text, attrs], attrs giving the attributes the code reads.
NodeAttrKeys == <<"data-page-permalink", "data-page-permalink-title", "data-url", "value">>
NoAttrs == [k \in {"data-page-permalink", "data-page-permalink-title", "data-url", "value",
                    "type"} |-> None]
WithValue(v) == [NoAttrs EXCEPT !["value"] = v]

RECURSIVE Flatten(_)
Flatten(ss) == IF ss = <<>> THEN <<>> ELSE Head(ss) \o <<"\n">> \o Flatten(Tail(ss))

OptText(o) == IF IsSome(o) THEN Unwrap(o) ELSE <<>>

RECURSIVE AttrText(_, _)
AttrText(node, keys) ==
  IF keys = <<>> THEN <<>>
  ELSE OptText(node.attrs[Head(keys)]) \o <<"\n">> \o AttrText(node, Tail(keys))

\* The page text as the regular expressions see it: every element's text and
\* attribute values in document order, then the rest of the page.
DocHtml(doc) ==
  Flatten([i \in 1..Len(doc.textareas) |->
             doc.textareas[i].text \o <<"\n">> \o AttrText(doc.textareas[i], NodeAttrKeys)])
  \o Flatten([i \in 1..Len(doc.inputs) |-> AttrText(doc.inputs[i], NodeAttrKeys)])
  \o Flatten([i \in 1..Len(doc.anchors) |->
             OptText(doc.anchors[i].href) \o <<"\n">> \o doc.anchors[i].text])
  \o Flatten([i \in 1..Len(doc.metas) |-> OptText(doc.metas[i].content)])
  \o doc.script

EmptyDoc == [textareas |-> <<>>, inputs |-> <<>>, anchors |-> <<>>, metas |-> <<>>,
             script |-> <<>>]

\* --------------------------------------------------- find_timetable_menu_link
AnchorScore(a, flow_id) ==
  LET href_lower == ToAsciiLowercase(Unwrap(a.href))
      text_lower == ToAsciiLowercase(NormalizeText(a.text))
      has_flow_id == Contains(href_lower, <<"_flowid=">> \o ToAsciiLowercase(flow_id))
      has_identifier == Contains(href_lower, <<"individualtimetable">>)
      has_keyword == Contains(text_lower, <<"stundenplan">>)
                     \/ Contains(text_lower, <<"timetable">>)
  IN IF has_flow_id THEN 3
     ELSE IF has_identifier THEN 2
     ELSE IF has_keyword THEN 1
     ELSE 0

\* MenuStep with the comparison turned into >=: the last maximum would win.
MenuStepLastMax(best, a, base, flow_id) ==
  IF a.href = None \/ a.href = Some(<<>>) THEN best
  ELSE LET score == AnchorScore(a, flow_id) IN
       IF score = 0 THEN best
       ELSE LET url == ResolveHref(Unwrap(a.href), base) IN
            IF url = None THEN best
            ELSE IF best = None THEN Some([score |-> score, url |-> Unwrap(url)])
            ELSE IF score >= Unwrap(best).score
                 THEN Some([score |-> score, url |-> Unwrap(url)])
            ELSE best

\* One iteration of the loop over a[href]: the new value of `best`.
MenuStep(best, a, base, flow_id) ==
  IF a.href = None \/ a.href = Some(<<>>) THEN best
  ELSE LET score == AnchorScore(a, flow_id) IN
       IF score = 0 THEN best
       ELSE LET url == ResolveHref(Unwrap(a.href), base) IN
            IF url = None THEN best
            ELSE IF best = None THEN Some([score |-> score, url |-> Unwrap(url)])
            ELSE IF score > Unwrap(best).score
                 THEN Some([score |-> score, url |-> Unwrap(url)])
            ELSE best

RECURSIVE MenuLoop(_, _, _, _)
MenuLoop(best, anchors, base, flow_id) ==
  IF anchors = <<>> THEN best
  ELSE MenuLoop(MenuStep(best, Head(anchors), base, flow_id), Tail(anchors), base, flow_id)

FindTimetableMenuLink(doc, base, flow_id) ==
  LET best == MenuLoop(None, doc.anchors, base, flow_id) IN
  IF best = None THEN None ELSE Some(Unwrap(best).url)

\* client.rs 136-137: the entry URL get_timetable requests.
EntryUrl(landing) ==
  LET link == FindTimetableMenuLink(landing, BaseUri, FlowId) IN
  IF link = None THEN BuildTimetableUri(TimetableBase, FlowId, None) ELSE Unwrap(link)

\* ------------------------------------------------------------ sample inputs
HrefFlowRel == <<"/qisserver/pages/plan/individualTimetable.xhtml", "?", "_flowId=",
                 "individualTimetableSchedule-flow">>
HrefFlowAbsUpper == <<"https://", "campusportal.ur.de", "/plan", "?", "_FLOWID=",
                      "INDIVIDUALTIMETABLESCHEDULE-FLOW">>
HrefIdent == <<"/qisserver/pages/plan/individualTimetable.xhtml">>
HrefPlain == <<"/qisserver/pages/cm/exa/overview.xhtml">>
HrefMailtoFlow == <<"mailto:", "x", "?", "_flowId=", "individualTimetableSchedule-flow">>
HrefInvalidIdent == <<"//[", "/qisserver/pages/plan/individualTimetable.xhtml">>

TextStundenplan == <<" ", "Mein", "&nbsp;", "Stundenplan">>
TextTimetable == <<"Timetable">>
TextLogout == <<"Logout">>

SampleAnchors ==
  { [href |-> Some(HrefFlowRel), text |-> TextLogout],
    [href |-> Some(HrefFlowAbsUpper), text |-> TextTimetable],
    [href |-> Some(HrefIdent), text |-> TextLogout],
    [href |-> Some(HrefPlain), text |-> TextStundenplan],
    [href |-> Some(HrefPlain), text |-> TextTimetable],
    [href |-> Some(HrefPlain), text |-> TextLogout],
    [href |-> Some(HrefMailtoFlow), text |-> TextTimetable],
    [href |-> Some(HrefInvalidIdent), text |-> TextLogout],
    [href |-> Some(<<>>), text |-> TextTimetable],
    [href |-> None, text |-> TextStundenplan] }

SeqsUpTo(S, n) == UNION { [1..k -> S] : k \in 0..n }

MenuDocs == { [EmptyDoc EXCEPT !.anchors = as] : as \in SeqsUpTo(SampleAnchors, MaxAnchors) }

\* ------------------------------------------- specification: menu discovery
InitMenu == arg \in MenuDocs /\ ret = None /\ fdone = FALSE /\ InitClient

ApplyMenu ==
  /\ ~fdone
  /\ ret' = [link |-> FindTimetableMenuLink(arg, BaseUri, FlowId), entry |-> EntryUrl(arg)]
  /\ fdone' = TRUE
  /\ UNCHANGED <<arg, ovars>>

SpecMenu == InitMenu /\ [][ApplyMenu]_vars

\* The anchors that take part in the choice: a non-empty href, a score above
\* 0 and a resolvable URL.
MenuScored(doc) ==
  { i \in 1..Len(doc.anchors) :
      /\ doc.anchors[i].href # None /\ doc.anchors[i].href # Some(<<>>)
      /\ AnchorScore(doc.anchors[i], FlowId) > 0 }
MenuCands(doc) ==
  { i \in MenuScored(doc) : IsSome(ResolveHref(Unwrap(doc.anchors[i].href), BaseUri)) }
MenuUrlOf(doc, i) == ResolveHref(Unwrap(doc.anchors[i].href), BaseUri)
MenuScoreOf(doc, i) == AnchorScore(doc.anchors[i], FlowId)

\* C7: find_timetable_menu_link returns the resolved URL of the earliest
\* anchor of highest score among the anchors that score above 0 and resolve,
\* whatever the order of the anchors; it returns none when no anchor scores
\* above 0, and the caller then requests the default URL that carries only
\* _flowId.
C7_MenuLinkIsFirstMaximum ==
  fdone =>
    LET c == MenuCands(arg) IN
    /\ (c = {}) <=> (ret.link = None)
    /\ c # {} =>
         \E k \in c :
            /\ \A i \in c : MenuScoreOf(arg, i) <= MenuScoreOf(arg, k)
            /\ \A i \in c : MenuScoreOf(arg, i) = MenuScoreOf(arg, k) => k <= i
            /\ ret.link = MenuUrlOf(arg, k)
            /\ ret.entry = Unwrap(MenuUrlOf(arg, k))
    /\ MenuScored(arg) = {} => ret.link = None
    /\ ret.link = None =>
         ret.entry = TimetableBase \o <<"?", "_flowId=", "individualTimetableSchedule-flow">>

\* A later anchor of higher score displaced an earlier candidate, and another
\* candidate of the same highest score follows the one returned.
C7_Witness ==
  /\ fdone
  /\ \E i, j, k \in MenuCands(arg) :
        /\ i < j /\ j < k
        /\ MenuScoreOf(arg, i) < MenuScoreOf(arg, j)
        /\ MenuScoreOf(arg, k) = MenuScoreOf(arg, j)
        /\ MenuUrlOf(arg, k) # MenuUrlOf(arg, j)
        /\ ret.link = MenuUrlOf(arg, j)

\* ------------------------------------------------ extract_flow_key_from_html
FlowKeyMarker == "_flowExecutionKey="
AlnumTokens == {"e1s1", "e2s1", "e3s1", "e4s1", "e5s1", "e6s1", "e7s1"}

RECURSIVE TakeWhileAlnum(_)
TakeWhileAlnum(s) ==
  IF s = <<>> \/ Head(s) \notin AlnumTokens THEN <<>>
  ELSE <<Head(s)>> \o TakeWhileAlnum(Tail(s))

\* The first index of token t in s, 0 when absent (str::find).
RECURSIVE FindTok(_, _, _)
FindTok(s, t, i) ==
  IF i > Len(s) THEN 0 ELSE IF s[i] = t THEN i ELSE FindTok(s, t, i + 1)

\* The remainder of s from position i up to (not including) the first token of `stops`.
RECURSIVE TakeUntil(_, _, _)
TakeUntil(s, i, stops) ==
  IF i > Len(s) \/ s[i] \in stops THEN <<>>
  ELSE <<s[i]>> \o TakeUntil(s, i + 1, stops)

\* Url::query_pairs, searched for the key _flowExecutionKey: the value of
\* the first such pair (everything up to the next '&' or the fragment).
RECURSIVE QueryValue(_, _)
QueryValue(url, i) ==
  IF i > Len(url) \/ url[i] = "#" THEN None
  ELSE IF url[i] = FlowKeyMarker /\ url[i - 1] \in {"?", "&"}
       THEN Some(TakeUntil(url, i + 1, {"&", "#"}))
  ELSE QueryValue(url, i + 1)

\* client.rs extract_flow_key_from_url
ExtractFlowKeyFromUrl(url) ==
  LET q == FindTok(url, "?", 1) IN
  IF q = 0 THEN None ELSE QueryValue(url, q + 1)

\* dom.rs extract_flow_key_from_str
ExtractFlowKeyFromStr(input) ==
  LET url == UrlParse(input)
      viaUrl == IF IsSome(url) THEN ExtractFlowKeyFromUrl(Unwrap(url)) ELSE None
  IN IF IsSome(viaUrl) THEN viaUrl
     ELSE LET idx == FindTok(input, FlowKeyMarker, 1) IN
          IF idx = 0 THEN None
          ELSE LET key == TakeWhileAlnum(SubSeq(input, idx + 1, Len(input))) IN
               IF key # <<>> THEN Some(key) ELSE None

\* The first element of a sequence that satisfies a selector, as an Option.
RECURSIVE FirstNamed(_, _)
FirstNamed(inputs, name) ==
  IF inputs = <<>> THEN None
  ELSE IF Head(inputs).name = name THEN Some(Head(inputs))
  ELSE FirstNamed(Tail(inputs), name)

RECURSIVE FirstWithId(_, _)
FirstWithId(inputs, id) ==
  IF inputs = <<>> THEN None
  ELSE IF Head(inputs).id = id THEN Some(Head(inputs))
  ELSE FirstWithId(Tail(inputs), id)

\* The trimmed, non-empty value attribute of the selector's first match.
FieldValue(node) ==
  IF node = None \/ Unwrap(node).attrs["value"] = None THEN None
  ELSE LET trimmed == Trim(Unwrap(Unwrap(node).attrs["value"])) IN
       IF trimmed # <<>> THEN Some(trimmed) ELSE None

\* Strategy 1 (dom.rs 129-140): the two input selectors, in order.
FlowKeyFromField(doc) ==
  LET byName == FieldValue(FirstNamed(doc.inputs, "_flowExecutionKey")) IN
  IF IsSome(byName) THEN byName
  ELSE FieldValue(FirstWithId(doc.inputs, "_flowExecutionKey"))

RECURSIVE FirstMarkedAnchor(_)
FirstMarkedAnchor(anchors) ==
  IF anchors = <<>> THEN None
  ELSE IF Head(anchors).href # None
          /\ FindTok(Unwrap(Head(anchors).href), FlowKeyMarker, 1) # 0
       THEN Some(Head(anchors))
  ELSE FirstMarkedAnchor(Tail(anchors))

\* Strategy 2 (dom.rs 142-150): the first anchor whose href holds the marker.
FlowKeyFromAnchor(doc) ==
  LET node == FirstMarkedAnchor(doc.anchors) IN
  IF node = None THEN None ELSE ExtractFlowKeyFromStr(Unwrap(Unwrap(node).href))

\* One meta element of the loop of dom.rs 152-166.
FlowKeyFromOneMeta(meta) ==
  IF LowerTok(meta.http_equiv) # "refresh" \/ meta.content = None THEN None
  ELSE LET content == Unwrap(meta.content)
           idx == FindTok(ToAsciiLowercase(content), "url=", 1)
       IN IF idx = 0 THEN None
          ELSE ExtractFlowKeyFromStr(SubSeq(content, idx + 1, Len(content)))

\* Strategy 3: every meta[http-equiv], in document order.
RECURSIVE FlowKeyFromMeta(_)
FlowKeyFromMeta(metas) ==
  IF metas = <<>> THEN None
  ELSE LET key == FlowKeyFromOneMeta(Head(metas)) IN
       IF IsSome(key) THEN key ELSE FlowKeyFromMeta(Tail(metas))

\* Strategy 4 (dom.rs 168-172): the first match of _flowExecutionKey=([A-Za-z0-9]+).
RECURSIVE FlowRegex(_, _)
FlowRegex(html, i) ==
  IF i >= Len(html) THEN None
  ELSE IF html[i] = FlowKeyMarker /\ html[i + 1] \in AlnumTokens
       THEN Some(TakeWhileAlnum(SubSeq(html, i + 1, Len(html))))
  ELSE FlowRegex(html, i + 1)

FlowKeyFromRegex(doc) == FlowRegex(DocHtml(doc), 1)

\* The cascade with strategies 2 and 3 exchanged.
ExtractFlowKeyMetaFirst(doc) ==
  LET k1 == FlowKeyFromField(doc) IN
  IF IsSome(k1) THEN k1
  ELSE LET k3 == FlowKeyFromMeta(doc.metas) IN
       IF IsSome(k3) THEN k3
       ELSE LET k2 == FlowKeyFromAnchor(doc) IN
            IF IsSome(k2) THEN k2 ELSE FlowKeyFromRegex(doc)

ExtractFlowKeyFromHtml(doc) ==
  LET k1 == FlowKeyFromField(doc) IN
  IF IsSome(k1) THEN k1
  ELSE LET k2 == FlowKeyFromAnchor(doc) IN
       IF IsSome(k2) THEN k2
       ELSE LET k3 == FlowKeyFromMeta(doc.metas) IN
            IF IsSome(k3) THEN k3 ELSE FlowKeyFromRegex(doc)

\* ------------------------------------------------------------ sample inputs
FlowInputs ==
  { [name |-> "_flowExecutionKey", id |-> "fk", text |-> <<>>,
     attrs |-> WithValue(Some(<<" ", "e1s1", " ">>))],
    [name |-> "_flowExecutionKey", id |-> "fk", text |-> <<>>, attrs |-> WithValue(Some(<<" ">>))],
    [name |-> "key", id |-> "_flowExecutionKey", text |-> <<>>,
     attrs |-> WithValue(Some(<<"e2s1">>))] }

FlowAnchors ==
  { [href |-> Some(<<"https://", "campusportal.ur.de", "/plan", "?", "_flowId=",
                     "individualTimetableSchedule-flow", "&", "_flowExecutionKey=",
                     "e3s1", "-x">>), text |-> TextTimetable],
    [href |-> Some(<<"/plan", "?", "_flowExecutionKey=", "e4s1", "-x">>), text |-> TextLogout],
    [href |-> Some(<<"/plan", "?", "_flowExecutionKey=", "-x">>), text |-> TextLogout],
    [href |-> Some(<<"https://", "campusportal.ur.de", "/plan", "?", "_flowExecutionKey=">>),
     text |-> TextLogout] }

FlowMetas ==
  { [http_equiv |-> "Refresh",
     content |-> Some(<<"0;", " ", "URL=", "/plan", "?", "_flowExecutionKey=", "e5s1">>)],
    [http_equiv |-> "refresh", content |-> Some(<<"5">>)],
    [http_equiv |-> "Content-Type",
     content |-> Some(<<"text/html;", "url=", "?", "_flowExecutionKey=", "e6s1">>)] }

FlowScripts == { <<>>, <<"var u='", "_flowExecutionKey=", "e7s1", "';">> }

\* --------------------------------------- specification: flow-key extraction
InitFlowKey ==
  /\ \E is \in SeqsUpTo(FlowInputs, MaxFlowNodes), as \in SeqsUpTo(FlowAnchors, MaxFlowNodes),
        ms \in SeqsUpTo(FlowMetas, MaxFlowNodes), sc \in FlowScripts :
        arg = [EmptyDoc EXCEPT !.inputs = is, !.anchors = as, !.metas = ms, !.script = sc]
  /\ ret = None
  /\ fdone = FALSE
  /\ InitClient

ApplyFlowKey ==
  /\ ~fdone
  /\ ret' = ExtractFlowKeyFromHtml(arg)
  /\ fdone' = TRUE
  /\ UNCHANGED <<arg, ovars>>

SpecFlowKey == InitFlowKey /\ [][ApplyFlowKey]_vars

\* The four strategies, in the order the claim gives them.
FlowStrategy(doc, n) ==
  CASE n = 1 -> FlowKeyFromField(doc)
    [] n = 2 -> FlowKeyFromAnchor(doc)
    [] n = 3 -> FlowKeyFromMeta(doc.metas)
    [] n = 4 -> FlowKeyFromRegex(doc)

\* C8: extract_flow_key_from_html returns the key of the first of the four
\* strategies (form field, anchor href, meta refresh, raw regex) that yields
\* one; a later strategy's key is returned only if every earlier strategy
\* yields none, and none is returned only if all four yield none.
C8_FlowKeyFirstStrategyWins ==
  fdone =>
    /\ (ret = None) <=> (\A n \in 1..4 : FlowStrategy(arg, n) = None)
    /\ \A n \in 1..4 :
         (IsSome(FlowStrategy(arg, n)) /\ \A m \in 1..(n - 1) : FlowStrategy(arg, m) = None)
           => ret = FlowStrategy(arg, n)

\* The meta-refresh key was returned although the raw scan and a non-refresh
\* meta offer other keys, because the field and the anchor strategies yield none.
C8_Witness ==
  /\ fdone
  /\ FlowStrategy(arg, 1) = None /\ FlowStrategy(arg, 2) = None
  /\ Len(arg.anchors) > 0 /\ Len(arg.inputs) > 0
  /\ Len(arg.metas) > 1
  /\ FlowKeyFromOneMeta(arg.metas[1]) = None
  /\ IsSome(FlowStrategy(arg, 3)) /\ IsSome(FlowStrategy(arg, 4))
  /\ FlowStrategy(arg, 3) # FlowStrategy(arg, 4)
  /\ ret = FlowStrategy(arg, 3)

\* -------------------------------------------------------------- find_ics_url
\* dom.rs contains_calendar_hint
ContainsCalendarHint(value) ==
  LET lower == ToAsciiLowercase(value) IN
  \/ Contains(lower, <<"calendarexport">>)
  \/ Contains(lower, <<"calendar">>)
  \/ Contains(lower, <<"individualtimetablecalendarexport">>)
  \/ Contains(lower, <<"timetablecalendar">>)
  \/ Contains(lower, <<".ics">>)
  \/ Contains(lower, <<"ical">>)

\* dom.rs attribute_values: the decoded, trimmed, non-empty values of the
\* attributes `keys` the node carries, in the order of `keys`.
RECURSIVE AttributeValues(_, _)
AttributeValues(node, keys) ==
  IF keys = <<>> THEN <<>>
  ELSE LET v == node.attrs[Head(keys)]
           rest == AttributeValues(node, Tail(keys))
       IN IF IsSome(v) /\ Trim(Unwrap(v)) # <<>> THEN <<Trim(Unwrap(v))>> \o rest ELSE rest

\* The candidate strings try_node_for_calendar_url collects from a node.
TryNodeValues(node) ==
  LET text == NormalizeText(node.text) IN
  (IF text # <<>> THEN <<text>> ELSE <<>>) \o AttributeValues(node, NodeAttrKeys)

\* The candidate strings of an a[href] element (dom.rs 207-211).
AnchorValues(a) ==
  LET href == IF Trim(Unwrap(a.href)) # <<>> THEN <<Trim(Unwrap(a.href))>> ELSE <<>>
      text == NormalizeText(a.text)
  IN href \o (IF text # <<>> THEN <<text>> ELSE <<>>)

\* find_calendar_url_in_values without the hint test.
RECURSIVE FindCalendarUrlNoHint(_, _, _)
FindCalendarUrlNoHint(values, base, tried) ==
  IF values = <<>> THEN [url |-> None, tried |-> tried]
  ELSE LET value == Head(values) IN
       IF value = <<>> THEN FindCalendarUrlNoHint(Tail(values), base, tried)
       ELSE LET url == ResolveUrl(value, base) IN
            IF IsSome(url) THEN [url |-> url, tried |-> Append(tried, value)]
            ELSE FindCalendarUrlNoHint(Tail(values), base, Append(tried, value))

\* dom.rs find_calendar_url_in_values.  `tried` records the strings handed to
\* resolve_url so far.
RECURSIVE FindCalendarUrlInValues(_, _, _)
FindCalendarUrlInValues(values, base, tried) ==
  IF values = <<>> THEN [url |-> None, tried |-> tried]
  ELSE LET value == Head(values) IN
       IF value = <<>> THEN FindCalendarUrlInValues(Tail(values), base, tried)
       ELSE IF ~ContainsCalendarHint(value)
            THEN FindCalendarUrlInValues(Tail(values), base, tried)
       ELSE LET url == ResolveUrl(value, base) IN
            IF IsSome(url) THEN [url |-> url, tried |-> Append(tried, value)]
            ELSE FindCalendarUrlInValues(Tail(values), base, Append(tried, value))

\* A `for node in ... { if let Some(url) = ... { return } }` loop over the
\* candidate lists of the selected nodes.
RECURSIVE ScanNodes(_, _, _)
ScanNodes(lists, base, tried) ==
  IF lists = <<>> THEN [url |-> None, tried |-> tried]
  ELSE LET r == FindCalendarUrlInValues(Head(lists), base, tried) IN
       IF IsSome(r.url) THEN r ELSE ScanNodes(Tail(lists), base, r.tried)

IdCalAdd(n) == "cal_add" \in TokSubstrings(n.id)
IdIcal(n) == "ical" \in TokSubstrings(n.id)
IdCalendar(n) == "calendar" \in TokSubstrings(n.id)
HasPermalink(n) == IsSome(n.attrs["data-page-permalink"])
HasDataUrl(n) == IsSome(n.attrs["data-url"])
HasHref(a) == IsSome(a.href)

ValuesOf(nodes) == [i \in 1..Len(nodes) |-> TryNodeValues(nodes[i])]

\* The nodes of the five textarea_selectors, selector by selector.
TextareaSelected(doc) ==
  SelectSeq(doc.textareas, IdCalAdd) \o SelectSeq(doc.textareas, IdIcal)
  \o SelectSeq(doc.textareas, IdCalendar) \o SelectSeq(doc.textareas, HasPermalink)
  \o SelectSeq(doc.textareas, HasDataUrl)

AnchorLists(doc) ==
  LET as == SelectSeq(doc.anchors, HasHref) IN [i \in 1..Len(as) |-> AnchorValues(as[i])]

\* The characters outside the class of ICS_REGEX (the quote ' is inside it).
UrlStop == {" ", "\n", "\""}

\* ICS_REGEX.captures_iter: the URL-shaped runs that start with http:// or
\* https://, in text order.
RECURSIVE IcsRegexMatches(_, _)
IcsRegexMatches(html, i) ==
  IF i > Len(html) THEN <<>>
  ELSE IF html[i] \in {"https://", "http://"} /\ i < Len(html) /\ html[i + 1] \notin UrlStop
       THEN LET m == TakeUntil(html, i, UrlStop) IN
            <<m>> \o IcsRegexMatches(html, i + Len(m))
  ELSE IcsRegexMatches(html, i + 1)

\* The raw-text stage (dom.rs 217-227).
RECURSIVE ScanRegex(_, _, _)
ScanRegex(matches, base, tried) ==
  IF matches = <<>> THEN [url |-> None, tried |-> tried]
  ELSE LET candidate == Trim(Head(matches)) IN
       IF ContainsCalendarHint(candidate)
          \/ Contains(ToAsciiLowercase(candidate), <<".ics">>)
       THEN LET url == ResolveUrl(candidate, base) IN
            IF IsSome(url) THEN [url |-> url, tried |-> Append(tried, candidate)]
            ELSE ScanRegex(Tail(matches), base, Append(tried, candidate))
       ELSE ScanRegex(Tail(matches), base, tried)

\* dom.rs find_ics_url, with the strings it handed to resolve_url.
FindIcsUrlTrace(doc, base) ==
  LET r1 == ScanNodes(ValuesOf(TextareaSelected(doc)), base, <<>>) IN
  IF IsSome(r1.url) THEN r1
  ELSE LET r2 == ScanNodes(ValuesOf(doc.textareas), base, r1.tried) IN
  IF IsSome(r2.url) THEN r2
  ELSE LET r3 == ScanNodes(ValuesOf(doc.inputs), base, r2.tried) IN
  IF IsSome(r3.url) THEN r3
  ELSE LET r4 == ScanNodes(AnchorLists(doc), base, r3.tried) IN
  IF IsSome(r4.url) THEN r4
  ELSE ScanRegex(IcsRegexMatches(DocHtml(doc), 1), base, r4.tried)

FindIcsUrl(doc, base) == FindIcsUrlTrace(doc, base).url

\* ------------------------------------------------------------ sample inputs
UrlCalIcs == <<"https://", "campusportal.ur.de", "/cal.ics">>
UrlUpperIcs == <<"https://", "campusportal.ur.de", "/", "plan.ICS">>
UrlFeedIcs == <<"https://", "campusportal.ur.de", "/feed.ics">>
UrlExportIcs == <<"https://", "campusportal.ur.de", "/export.ics">>
UrlLogout == <<"https://", "campusportal.ur.de", "/logout">>
RelCalendarExport == <<"/qisserver/", "calendarExport", "?", "u=1">>
TextIcalExport == <<"iCal", "&nbsp;", "Export">>
MailtoCalendar == <<"mailto:", "calendar", "@ur.de">>

IcsTextareas ==
  { [name |-> "", id |-> "cal_add_1", text |-> UrlCalIcs, attrs |-> NoAttrs],
    [name |-> "", id |-> "calendarBox", text |-> TextLogout,
     attrs |-> WithValue(Some(<<" ">> \o RelCalendarExport))],
    [name |-> "", id |-> "", text |-> <<>>,
     attrs |-> [NoAttrs EXCEPT !["data-url"] = Some(UrlUpperIcs)]],
    [name |-> "", id |-> "", text |-> TextIcalExport, attrs |-> NoAttrs],
    [name |-> "", id |-> "ical_x", text |-> MailtoCalendar,
     attrs |-> [NoAttrs EXCEPT !["data-page-permalink"] = Some(UrlLogout)]] }

IcsInputs ==
  { [name |-> "u", id |-> "", text |-> <<>>, attrs |-> WithValue(Some(UrlFeedIcs))],
    [name |-> "v", id |-> "", text |-> <<>>, attrs |-> WithValue(Some(UrlLogout))] }

IcsAnchors ==
  { [href |-> Some(UrlLogout), text |-> TextIcalExport],
    [href |-> Some(UrlExportIcs), text |-> TextLogout],
    [href |-> None, text |-> <<"plan.ICS">>] }

IcsScripts == { <<>>, <<"var c=", "'", "http://", "campusportal.ur.de", "/x", "/cal.ics", "'">> }

\* ------------------------------------ specification: calendar URL discovery
InitIcsUrl ==
  /\ \E ts \in SeqsUpTo(IcsTextareas, MaxIcsNodes),
        is \in SeqsUpTo(IcsInputs, MaxIcsNodes - 1),
        as \in SeqsUpTo(IcsAnchors, MaxIcsNodes - 1), sc \in IcsScripts :
        arg = [EmptyDoc EXCEPT !.textareas = ts, !.inputs = is, !.anchors = as, !.script = sc]
  /\ ret = None
  /\ fdone = FALSE
  /\ InitClient

ApplyIcsUrl ==
  /\ ~fdone
  /\ ret' = FindIcsUrlTrace(arg, BaseUri)
  /\ fdone' = TRUE
  /\ UNCHANGED <<arg, ovars>>

SpecIcsUrl == InitIcsUrl /\ [][ApplyIcsUrl]_vars

RECURSIVE ConcatAll(_)
ConcatAll(lists) == IF lists = <<>> THEN <<>> ELSE Head(lists) \o ConcatAll(Tail(lists))

IcsRawCandidates(doc) ==
  LET ms == IcsRegexMatches(DocHtml(doc), 1) IN [i \in 1..Len(ms) |-> Trim(ms[i])]

\* The candidate strings of stage n, in the order the stage scans them.
IcsStage(doc, n) ==
  CASE n = 1 -> ConcatAll(ValuesOf(TextareaSelected(doc)))
    [] n = 2 -> ConcatAll(ValuesOf(doc.textareas))
    [] n = 3 -> ConcatAll(ValuesOf(doc.inputs))
    [] n = 4 -> ConcatAll(AnchorLists(doc))
    [] n = 5 -> IcsRawCandidates(doc)

\* Stage 1 as the claim words it: only the textareas whose id contains a
\* calendar substring.
IcsStageById(doc, n) ==
  IF n = 1
  THEN ConcatAll(ValuesOf(SelectSeq(doc.textareas, IdCalAdd) \o SelectSeq(doc.textareas, IdIcal)
                          \o SelectSeq(doc.textareas, IdCalendar)))
  ELSE IcsStage(doc, n)

IcsPassing(v) ==
  v # <<>> /\ ContainsCalendarHint(v) /\ IsSome(ResolveUrl(v, BaseUri))

\* The resolved URL of the first passing candidate of a list, if any.
FirstPassing(list) ==
  LET ok == { i \in 1..Len(list) : IcsPassing(list[i]) } IN
  IF ok = {} THEN None
  ELSE ResolveUrl(list[CHOOSE i \in ok : \A j \in ok : i <= j], BaseUri)

\* C9 (as amended): find_ics_url returns the first hint-passing, resolvable
\* candidate of the earliest stage that has one, where stage 1 holds the
\* textareas of all five selectors (id contains cal_add, ical or calendar, or
\* a data-page-permalink or data-url attribute is present); none is returned
\* only if no stage has one, and no string that fails the hint test is
\* handed to the resolver.
C9_IcsUrlFirstPassingByStage ==
  fdone =>
    /\ \A i \in 1..Len(ret.tried) : ContainsCalendarHint(ret.tried[i])
    /\ (ret.url = None) <=> (\A n \in 1..5 : FirstPassing(IcsStage(arg, n)) = None)
    /\ \A n \in 1..5 :
         (/\ IsSome(FirstPassing(IcsStage(arg, n)))
          /\ \A m \in 1..(n - 1) : FirstPassing(IcsStage(arg, m)) = None)
           => ret.url = FirstPassing(IcsStage(arg, n))

\* C9 (as claimed): the same with stage 1 holding only the textareas whose id
\* contains a calendar substring.
C9_IcsUrlStageOneById ==
  fdone =>
    \A n \in 1..5 :
       (/\ IsSome(FirstPassing(IcsStageById(arg, n)))
        /\ \A m \in 1..(n - 1) : FirstPassing(IcsStageById(arg, m)) = None)
         => ret.url = FirstPassing(IcsStageById(arg, n))

\* A candidate that fails the hint test was passed over, one that passes it
\* but does not resolve was tried, and the URL returned comes from stage 3 or
\* later.
C9_Witness ==
  /\ fdone
  /\ IsSome(ret.url)
  /\ Len(ret.tried) > 1
  /\ \A m \in 1..2 : FirstPassing(IcsStage(arg, m)) = None
  /\ \E i \in 1..Len(IcsStage(arg, 2)) : ~ContainsCalendarHint(IcsStage(arg, 2)[i])

\* ------------------------------------------------------------------ ics.rs
UpperTok(t) ==
  CASE t = "freq" -> "FREQ"
    [] t = "Freq" -> "FREQ"
    [] t = "weekly" -> "WEEKLY"
    [] t = "Weekly" -> "WEEKLY"
    [] t = "daily" -> "DAILY"
    [] t = "Biweekly" -> "BIWEEKLY"
    [] t = "monthly" -> "MONTHLY"
    [] t = "Yearly" -> "YEARLY"
    [] t = "summary" -> "SUMMARY"
    [] t = "Summary" -> "SUMMARY"
    [] t = "dtstart" -> "DTSTART"
    [] t = "location" -> "LOCATION"
    [] OTHER -> t

ToAsciiUppercase(s) == [i \in 1..Len(s) |-> UpperTok(s[i])]

\* from_freq keeping the text of the rule in the Custom variant.
FromFreqVerbatim(freq) ==
  LET other == ToAsciiUppercase(freq) IN
  IF other = <<"DAILY">> THEN Some([kind |-> "Daily", text |-> <<>>])
  ELSE IF other = <<"WEEKLY">> THEN Some([kind |-> "Weekly", text |-> <<>>])
  ELSE IF other = <<"MONTHLY">> THEN Some([kind |-> "Monthly", text |-> <<>>])
  ELSE IF other = <<"YEARLY">> THEN Some([kind |-> "Yearly", text |-> <<>>])
  ELSE IF other # <<>> THEN Some([kind |-> "Custom", text |-> freq])
  ELSE None

\* model.rs Recurrence::from_freq
FromFreq(freq) ==
  LET other == ToAsciiUppercase(freq) IN
  IF other = <<"DAILY">> THEN Some([kind |-> "Daily", text |-> <<>>])
  ELSE IF other = <<"WEEKLY">> THEN Some([kind |-> "Weekly", text |-> <<>>])
  ELSE IF other = <<"MONTHLY">> THEN Some([kind |-> "Monthly", text |-> <<>>])
  ELSE IF other = <<"YEARLY">> THEN Some([kind |-> "Yearly", text |-> <<>>])
  ELSE IF other # <<>> THEN Some([kind |-> "Custom", text |-> other])
  ELSE None

\* str::split(sep): the pieces of s between the separator tokens.
RECURSIVE Split(_, _)
Split(s, sep) ==
  LET i == FindTok(s, sep, 1) IN
  IF i = 0 THEN <<s>>
  ELSE <<SubSeq(s, 1, i - 1)>> \o Split(SubSeq(s, i + 1, Len(s)), sep)

\* ics.rs recurrence_from_rule: the loop over the parts of the rule.
RECURSIVE RecurrenceFromParts(_)
RecurrenceFromParts(parts) ==
  IF parts = <<>> THEN None
  ELSE LET part == Head(parts)
           eq == FindTok(part, "=", 1)
           key == ToAsciiUppercase(Trim(IF eq = 0 THEN part ELSE SubSeq(part, 1, eq - 1)))
           value == Trim(IF eq = 0 THEN <<>> ELSE SubSeq(part, eq + 1, Len(part)))
       IN IF key = <<"FREQ">> THEN FromFreq(value)
          ELSE RecurrenceFromParts(Tail(parts))

RecurrenceFromRule(rule) == RecurrenceFromParts(Split(rule, ";"))

\* model.rs impl Display for Recurrence
RenderRecurrence(r) ==
  CASE r.kind = "Daily" -> <<"Daily">>
    [] r.kind = "Weekly" -> <<"Weekly">>
    [] r.kind = "Monthly" -> <<"Monthly">>
    [] r.kind = "Yearly" -> <<"Yearly">>
    [] r.kind = "Custom" -> r.text

\* ------------------------------------- specification: recurrence_from_rule
MaxRuleParts == 2

RuleParts ==
  { <<"FREQ", "=", "WEEKLY">>, <<"freq", "=", "weekly">>, <<"FREQ", "=", "Biweekly">>,
    <<"FREQ", "=", "BIWEEKLY">>, <<"FREQ", "=">>, <<"FREQ">>, <<"BYDAY", "=", "TU">>,
    <<" ", "Freq", " ", "=", " ", "daily", " ">>, <<"FREQ", "=", "monthly">>,
    <<"FREQ", "=", "Yearly">>, <<"FREQ", "=", "X", "=", "Y">> }

RECURSIVE JoinParts(_)
JoinParts(parts) ==
  IF parts = <<>> THEN <<>>
  ELSE IF Len(parts) = 1 THEN parts[1]
  ELSE parts[1] \o <<";">> \o JoinParts(Tail(parts))

InitRecurrence ==
  /\ \E parts \in SeqsUpTo(RuleParts, MaxRuleParts) : arg = JoinParts(parts)
  /\ ret = None
  /\ fdone = FALSE
  /\ InitClient

ApplyRecurrence ==
  /\ ~fdone
  /\ ret' = RecurrenceFromRule(arg)
  /\ fdone' = TRUE
  /\ UNCHANGED <<arg, ovars>>

SpecRecurrence == InitRecurrence /\ [][ApplyRecurrence]_vars

\* Key and value of one part of a rule, as written but for surrounding blanks.
PartKey(part) ==
  LET eq == FindTok(part, "=", 1) IN Trim(IF eq = 0 THEN part ELSE SubSeq(part, 1, eq - 1))
PartValue(part) ==
  LET eq == FindTok(part, "=", 1) IN
  Trim(IF eq = 0 THEN <<>> ELSE SubSeq(part, eq + 1, Len(part)))
FreqParts(rule) ==
  LET parts == Split(rule, ";") IN
  { i \in 1..Len(parts) : ToAsciiUppercase(PartKey(parts[i])) = <<"FREQ">> }
\* The value of the first FREQ key of the rule (FreqParts(rule) not empty).
FirstFreqValue(rule) ==
  LET parts == Split(rule, ";")
      first == CHOOSE i \in FreqParts(rule) : \A j \in FreqParts(rule) : i <= j
  IN PartValue(parts[first])
ClosedKind(v) ==
  CASE ToAsciiUppercase(v) = <<"DAILY">> -> "Daily"
    [] ToAsciiUppercase(v) = <<"WEEKLY">> -> "Weekly"
    [] ToAsciiUppercase(v) = <<"MONTHLY">> -> "Monthly"
    [] ToAsciiUppercase(v) = <<"YEARLY">> -> "Yearly"
    [] OTHER -> "Custom"

\* C12 (as stated): a FREQ value outside the four names is kept character for
\* character, so that rendering the Custom variant gives back the token of
\* the rule.
C12_CustomKeptVerbatim ==
  (fdone /\ FreqParts(arg) # {} /\ FirstFreqValue(arg) # <<>>
         /\ ClosedKind(FirstFreqValue(arg)) = "Custom")
    => (IsSome(ret) /\ Unwrap(ret).kind = "Custom"
        /\ RenderRecurrence(Unwrap(ret)) = FirstFreqValue(arg))

\* C12 (amended): the value of the first FREQ key maps case-insensitively to
\* Daily, Weekly, Monthly or Yearly; any other non-empty value is kept in
\* ASCII upper case as the Custom variant; an empty value or a rule without
\* FREQ key gives no recurrence, and no Custom variant has an empty text.
C12_RecurrenceFromFirstFreq ==
  fdone =>
    /\ (ret = None) <=> (FreqParts(arg) = {} \/ FirstFreqValue(arg) = <<>>)
    /\ IsSome(ret) =>
         /\ Unwrap(ret).kind = ClosedKind(FirstFreqValue(arg))
         /\ Unwrap(ret).kind = "Custom" =>
              /\ Unwrap(ret).text = ToAsciiUppercase(FirstFreqValue(arg))
              /\ Unwrap(ret).text # <<>>

\* A rule whose first FREQ value is written in mixed case and is none of the
\* four names, followed by a second FREQ key.
C12_Witness ==
  /\ fdone
  /\ Cardinality(FreqParts(arg)) = 2
  /\ FirstFreqValue(arg) = <<"Biweekly">>
  /\ IsSome(ret)
  /\ RenderRecurrence(Unwrap(ret)) = <<"BIWEEKLY">>

DateTokens == {"20241001", "20241002"}
HmsTokens == {"080000", "093000"}
HmTokens == {"0800"}
Rfc3339Value == <<"2024-10-01T08", ":", "00", ":", "00+02", ":", "00">>

\* NaiveDateTime::parse_from_str(v, "%Y%m%dT%H%M%S") / "%Y%m%dT%H%M" and
\* NaiveDate::parse_from_str(v, "%Y%m%d"): the parsed value, or None.
ParseNaive(v, utc) ==
  IF Len(v) = 3 /\ v[1] \in DateTokens /\ v[2] = "T" /\ v[3] \in HmsTokens
  THEN Some([date |-> v[1], time |-> v[3], utc |-> utc, pattern |-> "datetime"])
  ELSE IF Len(v) = 3 /\ v[1] \in DateTokens /\ v[2] = "T" /\ v[3] \in HmTokens
  THEN Some([date |-> v[1], time |-> v[3], utc |-> utc, pattern |-> "datetime-no-seconds"])
  ELSE IF Len(v) = 1 /\ v[1] \in DateTokens
  THEN Some([date |-> v[1], time |-> "000000", utc |-> utc, pattern |-> "date"])
  ELSE None

\* parse_ics_date cutting at the last colon of the value instead of the first.
ParseIcsDateLastColon(raw) ==
  LET trimmed == Trim(raw)
      colons == { i \in 1..Len(trimmed) : trimmed[i] = ":" }
      idx == IF colons = {} THEN 0 ELSE CHOOSE i \in colons : \A j \in colons : j <= i
      value == IF idx # 0 THEN Trim(SubSeq(trimmed, idx + 1, Len(trimmed))) ELSE trimmed
  IN IF value = <<>> THEN None
     ELSE IF value[Len(value)] = "Z"
          THEN ParseNaive(SubSeq(value, 1, Len(value) - 1), TRUE)
     ELSE LET naive == ParseNaive(value, FALSE) IN
          IF IsSome(naive) THEN naive
          ELSE IF value = Rfc3339Value
               THEN Some([date |-> "20241001", time |-> "080000", utc |-> TRUE,
                          pattern |-> "rfc3339"])
          ELSE None

\* ics.rs parse_ics_date
ParseIcsDate(raw) ==
  LET trimmed == Trim(raw)
      idx == FindTok(trimmed, ":", 1)
      value == IF idx # 0 THEN Trim(SubSeq(trimmed, idx + 1, Len(trimmed))) ELSE trimmed
  IN IF value = <<>> THEN None
     ELSE IF value[Len(value)] = "Z"
          THEN ParseNaive(SubSeq(value, 1, Len(value) - 1), TRUE)
     ELSE LET naive == ParseNaive(value, FALSE) IN
          IF IsSome(naive) THEN naive
          ELSE IF value = Rfc3339Value
               THEN Some([date |-> "20241001", time |-> "080000", utc |-> TRUE,
                          pattern |-> "rfc3339"])
          ELSE None

\* ---------------------------------------------- specification: parse_ics_date
MaxPrefixes == 2

\* Parameter prefixes as they stand before the value of a date property.
DatePrefixes == { <<"TZID=Europe/Berlin">>, <<"DTSTART;VALUE=DATE">>, <<" ", "X">> }

Rfc3339Zulu == <<"2024-10-01T08", ":", "00", ":", "00", "Z">>

DateValues ==
  { <<"20241001">>, <<"20241002", "Z">>, <<"20241001", "T", "080000">>,
    <<"20241001", "T", "093000", "Z">>, <<" ", "20241002", "T", "0800", " ">>,
    <<"soon">>, <<>>, Rfc3339Value, Rfc3339Zulu }

\* The raw text: the prefixes and the value, each prefix followed by a colon.
RECURSIVE RawDate(_, _)
RawDate(prefixes, value) ==
  IF prefixes = <<>> THEN value
  ELSE Head(prefixes) \o <<":">> \o RawDate(Tail(prefixes), value)

InitIcsDate ==
  /\ \E ps \in SeqsUpTo(DatePrefixes, MaxPrefixes), v \in DateValues :
        arg = [prefixes |-> ps, value |-> v]
  /\ ret = None
  /\ fdone = FALSE
  /\ InitClient

ApplyIcsDate ==
  /\ ~fdone
  /\ ret' = ParseIcsDate(RawDate(arg.prefixes, arg.value))
  /\ fdone' = TRUE
  /\ UNCHANGED <<arg, ovars>>

SpecIcsDate == InitIcsDate /\ [][ApplyIcsDate]_vars

ColonFree(v) == \A i \in 1..Len(v) : v[i] # ":"

\* C13 (as stated): everything up to the last colon is discarded, so a value
\* behind any prefixes parses as the value alone does.
C13_PrefixUpToLastColon ==
  (fdone /\ ColonFree(arg.value)) => ret = ParseIcsDate(arg.value)

\* C13 (amended): everything up to the FIRST colon is discarded.  A value
\* without colon behind one colon-free prefix parses as the value alone; behind
\* prefixes that hold a colon themselves the rest keeps a colon and nothing is
\* parsed; a standard timestamp is parsed only behind exactly such a single
\* prefix and when it does not end in Z, standing alone it is cut at its own
\* first colon.
C13_PrefixUpToFirstColon ==
  fdone =>
    /\ (ColonFree(arg.value) /\ Len(arg.prefixes) <= 1) => ret = ParseIcsDate(arg.value)
    /\ (ColonFree(arg.value) /\ Len(arg.prefixes) > 1) => ret = None
    /\ arg.value = Rfc3339Value =>
         IF Len(arg.prefixes) = 1
         THEN IsSome(ret) /\ Unwrap(ret).pattern = "rfc3339"
         ELSE ret = None
    /\ arg.value = Rfc3339Zulu => ret = None
    /\ IsSome(ret) /\ arg.value # Rfc3339Value =>
         Unwrap(ret).pattern =
           (CASE Len(Trim(arg.value)) - (IF Unwrap(ret).utc THEN 1 ELSE 0) = 1 -> "date"
              [] Trim(arg.value)[3] \in HmsTokens -> "datetime"
              [] OTHER -> "datetime-no-seconds")

\* A value that parses on its own stands behind a prefix holding a colon and
\* is not parsed.
C13_Witness ==
  /\ fdone
  /\ Len(arg.prefixes) = 2
  /\ IsSome(ParseIcsDate(arg.value))
  /\ ret = None

\* DateTime<Local>::format("%Y-%m-%d") and format("%H:%M"); a value given in
\* UTC is shown in the local zone of the process, which the text marks.
FormatDate(dt) ==
  <<(IF dt.date = "20241001" THEN "2024-10-01" ELSE "2024-10-02")>>
  \o (IF dt.utc THEN <<"(local)">> ELSE <<>>)
FormatTime(dt) ==
  <<(CASE dt.time = "080000" -> "08:00" [] dt.time = "093000" -> "09:30"
       [] dt.time = "0800" -> "08:00" [] OTHER -> "00:00")>>
  \o (IF dt.utc THEN <<"(local)">> ELSE <<>>)

\* ics.rs property_value: the value of the first property of that name.
RECURSIVE PropertyValue(_, _)
PropertyValue(properties, name) ==
  IF properties = <<>> THEN None
  ELSE IF UpperTok(Head(properties).name) = UpperTok(name) THEN Head(properties).value
  ELSE PropertyValue(Tail(properties), name)

\* Option::and_then
AndThenDate(o) == IF IsSome(o) THEN ParseIcsDate(Unwrap(o)) ELSE None

\* The fields parse_ics derives from one event (ics.rs 24-57).
EventFields(event) ==
  LET summary == PropertyValue(event, "SUMMARY")
      description == PropertyValue(event, "DESCRIPTION")
      location == PropertyValue(event, "LOCATION")
      dt_start == AndThenDate(PropertyValue(event, "DTSTART"))
      dt_end == AndThenDate(PropertyValue(event, "DTEND"))
      rrule_raw == PropertyValue(event, "RRULE")
      title_src == IF IsSome(summary) THEN summary ELSE description
  IN [date |-> IF IsSome(dt_start) THEN FormatDate(Unwrap(dt_start)) ELSE <<>>,
      time |-> IF IsSome(dt_start) /\ IsSome(dt_end)
                 THEN FormatTime(Unwrap(dt_start)) \o <<" - ">> \o FormatTime(Unwrap(dt_end))
               ELSE IF IsSome(dt_start) THEN FormatTime(Unwrap(dt_start))
               ELSE <<>>,
      title |-> IF IsSome(title_src) THEN Trim(Unwrap(title_src)) ELSE <<>>,
      location |-> IF IsSome(location) THEN Trim(Unwrap(location)) ELSE <<>>,
      recurrence |-> IF IsSome(rrule_raw) THEN RecurrenceFromRule(Unwrap(rrule_raw)) ELSE None]

\* The event loop without the test of line 59: every event is pushed.
EventEntriesKeepAll(event) == <<EventFields(event)>>

\* The entry an event contributes, if any (ics.rs 59-65).
EventEntries(event) ==
  LET e == EventFields(event) IN
  IF e.date = <<>> /\ e.title = <<>> THEN <<>> ELSE <<e>>

RECURSIVE CalendarEntries(_)
CalendarEntries(events) ==
  IF events = <<>> THEN <<>>
  ELSE EventEntries(Head(events)) \o CalendarEntries(Tail(events))

\* The loop leaving at the first Err result instead of going on to the next.
RECURSIVE BlockEntriesAbortOnError(_)
BlockEntriesAbortOnError(blocks) ==
  IF blocks = <<>> \/ ~Head(blocks).ok THEN <<>>
  ELSE CalendarEntries(Head(blocks).events) \o BlockEntriesAbortOnError(Tail(blocks))

\* The loop over the results of IcalParser: an Err is skipped.
RECURSIVE BlockEntries(_)
BlockEntries(blocks) ==
  IF blocks = <<>> THEN <<>>
  ELSE (IF Head(blocks).ok THEN CalendarEntries(Head(blocks).events) ELSE <<>>)
       \o BlockEntries(Tail(blocks))

\* What the feed text is: leading text outside any calendar, then the
\* calendar blocks.  content.trim().is_empty() holds when there is neither.
FeedIsBlank(feed) == Trim(feed.junk) = <<>> /\ feed.blocks = <<>>

\* The sequence of results IcalParser yields for the feed: text outside a
\* calendar is an error result, then one result per block.
IcalParserResults(feed) ==
  (IF Trim(feed.junk) # <<>> THEN <<[ok |-> FALSE, events |-> <<>>]>> ELSE <<>>)
  \o feed.blocks

\* ics.rs parse_ics
ParseIcs(feed) ==
  IF FeedIsBlank(feed) THEN <<>> ELSE BlockEntries(IcalParserResults(feed))

\* ------------------------------------------------------------ sample inputs
Prop(n, v) == [name |-> n, value |-> v]
DtLocal == <<"20241001", "T", "080000">>
DtEndLocal == <<"20241001", "T", "093000">>
DtUtcDate == <<" ", "20241002", "Z">>
DtGarbage == <<"soon">>
RuleWeekly == <<"FREQ", "=", "WEEKLY", ";", "BYDAY", "=", "TU">>

SampleEvents ==
  { \* a complete event
    << Prop("SUMMARY", Some(<<"Lecture">>)), Prop("LOCATION", Some(<<" ", "Room 101">>)),
       Prop("DTSTART", Some(DtLocal)), Prop("DTEND", Some(DtEndLocal)),
       Prop("RRULE", Some(RuleWeekly)) >>,
    \* neither start nor title, everything else present
    << Prop("LOCATION", Some(<<"Room 101">>)), Prop("DTEND", Some(DtEndLocal)),
       Prop("RRULE", Some(RuleWeekly)) >>,
    \* unparseable start, blank summary that hides the description
    << Prop("DTSTART", Some(DtGarbage)), Prop("SUMMARY", Some(<<" ">>)),
       Prop("DESCRIPTION", Some(<<"Desc">>)), Prop("LOCATION", Some(<<"Room 101">>)) >>,
    \* no start, title from the description
    << Prop("DESCRIPTION", Some(<<"Desc">>)) >>,
    \* a start in UTC and no title
    << Prop("dtstart", Some(DtUtcDate)) >>,
    \* a summary property without a value, then a second summary
    << Prop("Summary", None), Prop("SUMMARY", Some(<<"Second">>)) >>,
    \* a start, an unparseable end
    << Prop("DTSTART", Some(DtLocal)), Prop("DTEND", Some(DtGarbage)),
       Prop("SUMMARY", Some(<<"Lab">>)) >> }

\* A feed is written as a sequence of items: CalItem opens a calendar block,
\* ErrItem is a malformed block, anything else is an event of the open block.
CalItem == << Prop("BEGIN", Some(<<"VCALENDAR">>)) >>
ErrItem == << Prop("BEGIN", None) >>
FeedItems == {CalItem, ErrItem} \cup SampleEvents

RECURSIVE GroupBlocks(_, _)
GroupBlocks(items, blocks) ==
  IF items = <<>> THEN blocks
  ELSE LET it == Head(items) IN
       IF it = CalItem THEN GroupBlocks(Tail(items), Append(blocks, [ok |-> TRUE, events |-> <<>>]))
       ELSE IF it = ErrItem
            THEN GroupBlocks(Tail(items), Append(blocks, [ok |-> FALSE, events |-> <<>>]))
       ELSE IF blocks # <<>> /\ blocks[Len(blocks)].ok
            THEN GroupBlocks(Tail(items),
                   [blocks EXCEPT ![Len(blocks)].events = Append(@, it)])
       ELSE GroupBlocks(Tail(items), Append(blocks, [ok |-> TRUE, events |-> <<it>>]))

FeedJunk == { <<>>, <<" ", "\n">>, <<"<html>">> }

\* ------------------------------------------------ specification: parse_ics
InitParseIcs ==
  /\ \E items \in SeqsUpTo(FeedItems, MaxFeedItems), junk \in FeedJunk :
        arg = [junk |-> junk, blocks |-> GroupBlocks(items, <<>>)]
  /\ ret = None
  /\ fdone = FALSE
  /\ InitClient

ApplyParseIcs ==
  /\ ~fdone
  /\ ret' = ParseIcs(arg)
  /\ fdone' = TRUE
  /\ UNCHANGED <<arg, ovars>>

SpecParseIcs == InitParseIcs /\ [][ApplyParseIcs]_vars

AllEvents(feed) ==
  UNION { { feed.blocks[b].events[i] : i \in 1..Len(feed.blocks[b].events) } :
          b \in { c \in 1..Len(feed.blocks) : feed.blocks[c].ok } }

\* C10: no entry returned by parse_ics has both an empty date and an empty
\* title: an event whose DTSTART is absent or unparseable and whose title is
\* empty after trimming contributes no entry, whatever its other properties.
C10_NoEntryWithoutDateAndTitle ==
  fdone =>
    /\ \A i \in 1..Len(ret) : ~(ret[i].date = <<>> /\ ret[i].title = <<>>)
    /\ Len(ret) =
         Cardinality({ p \in { <<b, i>> : b \in 1..Len(arg.blocks), i \in 1..MaxFeedItems } :
            /\ arg.blocks[p[1]].ok
            /\ p[2] <= Len(arg.blocks[p[1]].events)
            /\ LET ev == arg.blocks[p[1]].events[p[2]] IN
               ~(/\ AndThenDate(PropertyValue(ev, "DTSTART")) = None
                 /\ EventFields(ev).title = <<>>) })

\* An event with a location, an end and a rule but neither start nor title
\* was dropped, while entries with only a title and only a date were kept.
C10_Witness ==
  /\ fdone
  /\ \E ev \in AllEvents(arg) :
        /\ EventFields(ev).date = <<>> /\ EventFields(ev).title = <<>>
        /\ EventFields(ev).location # <<>> /\ IsSome(EventFields(ev).recurrence)
  /\ \E i \in 1..Len(ret) : ret[i].date = <<>> /\ ret[i].title # <<>>
  /\ \E i \in 1..Len(ret) : ret[i].date # <<>> /\ ret[i].title = <<>>

\* The events of the well-formed blocks of a feed, in the order of the feed.
EventsInOrder(feed) ==
  ConcatAll([b \in 1..Len(feed.blocks) |->
               IF feed.blocks[b].ok THEN feed.blocks[b].events ELSE <<>>])

ContributesEntry(ev) ==
  ~(AndThenDate(PropertyValue(ev, "DTSTART")) = None /\ EventFields(ev).title = <<>>)

\* C11: parse_ics returns the entries of the events of the well-formed
\* blocks, in feed order, a malformed block being passed over without loss
\* of the blocks after it; empty or whitespace-only input and calendars
\* without events give the empty sequence.
C11_BestEffortInOrder ==
  fdone =>
    LET kept == SelectSeq(EventsInOrder(arg), ContributesEntry) IN
    /\ ret = [i \in 1..Len(kept) |-> EventFields(kept[i])]
    /\ (arg.blocks = <<>> /\ Trim(arg.junk) = <<>>) => ret = <<>>
    /\ (\A b \in 1..Len(arg.blocks) : arg.blocks[b].events = <<>>) => ret = <<>>

\* A malformed block stands before a well-formed one whose two events both
\* came out, in their order.
C11_Witness ==
  /\ fdone
  /\ Len(arg.blocks) = 2
  /\ ~arg.blocks[1].ok
  /\ arg.blocks[2].ok
  /\ Len(arg.blocks[2].events) = 2
  /\ Len(ret) = 2
  /\ ret[1] # ret[2]
  /\ ret[1] = EventFields(arg.blocks[2].events[1])

\* ------------------------------------------------- find_credential_fields
\* attrs.get("type").map(|t| t.to_ascii_lowercase()).unwrap_or_default()
InputType(input) == ToAsciiLowercase(OptText(input.attrs["type"]))

\* attrs.get("name"): an input written without name attribute has name "".
NameAttr(input) == IF input.name = "" THEN None ELSE Some(input.name)

\* The loop body without the is_none() guards: every input of a category
\* sets the field again.
CredStepLastWins(fields, input) ==
  LET t == InputType(input)
      pass == IF t = <<"password">> THEN NameAttr(input) ELSE fields.pass
      user == IF t = <<"text">> \/ t = <<"email">> THEN NameAttr(input) ELSE fields.user
  IN [user |-> user, pass |-> pass]

\* dom.rs 34-46: one turn of the loop over the inputs.
CredStep(fields, input) ==
  LET t == InputType(input)
      pass == IF t = <<"password">> /\ fields.pass = None THEN NameAttr(input)
              ELSE fields.pass
      user == IF (t = <<"text">> \/ t = <<"email">>) /\ fields.user = None
              THEN NameAttr(input) ELSE fields.user
  IN [user |-> user, pass |-> pass]

RECURSIVE CredLoop(_, _)
CredLoop(fields, inputs) ==
  IF inputs = <<>> THEN fields ELSE CredLoop(CredStep(fields, Head(inputs)), Tail(inputs))

\* dom.rs find_credential_fields
FindCredentialFields(doc) ==
  LET f == CredLoop([user |-> None, pass |-> None], doc.inputs) IN
  [user |-> IF IsSome(f.user) THEN Unwrap(f.user) ELSE "asdf",
   pass |-> IF IsSome(f.pass) THEN Unwrap(f.pass) ELSE "fdsa"]

\* ------------------------------------ specification: credential field names
MaxInputs == 3

TypedInput(name, type) ==
  [name |-> name, id |-> "", text |-> <<>>, attrs |-> [NoAttrs EXCEPT !["type"] = type]]

CredInputs ==
  { TypedInput("pw1", Some(<<"password">>)), TypedInput("pw2", Some(<<"PASSWORD">>)),
    TypedInput("", Some(<<"password">>)), TypedInput("user1", Some(<<"text">>)),
    TypedInput("mail1", Some(<<"Email">>)), TypedInput("", Some(<<"Text">>)),
    TypedInput("tok", Some(<<"hidden">>)), TypedInput("plain", None) }

InitCredentials ==
  /\ \E is \in SeqsUpTo(CredInputs, MaxInputs) : arg = [EmptyDoc EXCEPT !.inputs = is]
  /\ ret = None
  /\ fdone = FALSE
  /\ InitClient

ApplyCredentials ==
  /\ ~fdone
  /\ ret' = FindCredentialFields(arg)
  /\ fdone' = TRUE
  /\ UNCHANGED <<arg, ovars>>

SpecCredentials == InitCredentials /\ [][ApplyCredentials]_vars

IsPasswordInput(input) == InputType(input) = <<"password">>
IsUserInput(input) == InputType(input) \in {<<"text">>, <<"email">>}
PasswordAt(doc) == { i \in 1..Len(doc.inputs) : IsPasswordInput(doc.inputs[i]) }
UserAt(doc) == { i \in 1..Len(doc.inputs) : IsUserInput(doc.inputs[i]) }
NamedAt(doc, at) == { i \in at : doc.inputs[i].name # "" }
FirstOf(at) == CHOOSE i \in at : \A j \in at : i <= j

\* C15 (as stated): the first input of each category supplies the field
\* name, the fallback being used when the category has no input.
C15_FirstOfCategory ==
  fdone =>
    /\ ret.pass = IF PasswordAt(arg) = {} THEN "fdsa"
                  ELSE arg.inputs[FirstOf(PasswordAt(arg))].name
    /\ ret.user = IF UserAt(arg) = {} THEN "asdf"
                  ELSE arg.inputs[FirstOf(UserAt(arg))].name

\* C15 (amended): per category, the first input that carries a name attribute
\* supplies the field name, whichever category comes first in the document,
\* and the fallback is used when no input of the category carries a name.
C15_FirstNamedOfCategory ==
  fdone =>
    /\ ret.pass = IF NamedAt(arg, PasswordAt(arg)) = {} THEN "fdsa"
                  ELSE arg.inputs[FirstOf(NamedAt(arg, PasswordAt(arg)))].name
    /\ ret.user = IF NamedAt(arg, UserAt(arg)) = {} THEN "asdf"
                  ELSE arg.inputs[FirstOf(NamedAt(arg, UserAt(arg)))].name

\* The password input stands before the user input, each followed by a
\* second input of its category, and the first of each was taken.
C15_Witness ==
  /\ fdone
  /\ Len(arg.inputs) = 3
  /\ IsPasswordInput(arg.inputs[1]) /\ IsPasswordInput(arg.inputs[2])
  /\ IsUserInput(arg.inputs[3])
  /\ arg.inputs[1].name # arg.inputs[2].name
  /\ ret = [user |-> arg.inputs[3].name, pass |-> arg.inputs[1].name]
  /\ ret.pass = "pw2"

\* ---------------------------------------------------------------- model.rs
\* [&str]::join(sep)
RECURSIVE JoinSeqs(_, _)
JoinSeqs(parts, sep) ==
  IF parts = <<>> THEN <<>>
  ELSE IF Len(parts) = 1 THEN parts[1]
  ELSE parts[1] \o sep \o JoinSeqs(Tail(parts), sep)

NonEmptyText(t) == t # <<>>

\* Display with the location always introduced by " @ ".
DisplayEntryAlwaysAt(e) ==
  LET line0 == JoinSeqs(SelectSeq(<<e.date, e.time, e.title>>, NonEmptyText), <<" ">>)
      line == IF e.location # <<>> THEN line0 \o <<" @ ">> \o e.location ELSE line0
  IN IF IsSome(e.recurrence)
     THEN IF line = <<>> THEN RenderRecurrence(Unwrap(e.recurrence))
          ELSE line \o <<" U+2022 ">> \o RenderRecurrence(Unwrap(e.recurrence))
     ELSE line

\* model.rs impl Display for TimetableEntry; " U+2022 " is the separator
\* written with the bullet character of that code point.
DisplayEntry(e) ==
  LET line0 == JoinSeqs(SelectSeq(<<e.date, e.time, e.title>>, NonEmptyText), <<" ">>)
      line == IF e.location # <<>>
              THEN IF line0 = <<>> THEN e.location ELSE line0 \o <<" @ ">> \o e.location
              ELSE line0
  IN IF IsSome(e.recurrence)
     THEN IF line = <<>> THEN RenderRecurrence(Unwrap(e.recurrence))
          ELSE line \o <<" U+2022 ">> \o RenderRecurrence(Unwrap(e.recurrence))
     ELSE line

\* client.rs format_entries
FormatEntries(entries) ==
  IF entries = <<>> THEN <<"No timetable entries found.">>
  ELSE JoinSeqs([i \in 1..Len(entries) |-> DisplayEntry(entries[i])], <<"\n">>)

\* ------------------------------------------------ specification: rendering
MaxEntries == 2

SampleEntries ==
  [date : {<<>>, <<"2025-01-01">>},
   time : {<<>>, <<"10:00 - 12:00">>},
   title : {<<>>, <<"Sample Lecture">>},
   location : {<<>>, <<"Room 101">>},
   recurrence : {None, Some([kind |-> "Weekly", text |-> <<>>]),
                 Some([kind |-> "Custom", text |-> <<"BIWEEKLY">>])}]

InitRender ==
  /\ arg \in SeqsUpTo(SampleEntries, MaxEntries)
  /\ ret = None
  /\ fdone = FALSE
  /\ InitClient

ApplyRender ==
  /\ ~fdone
  /\ ret' = FormatEntries(arg)
  /\ fdone' = TRUE
  /\ UNCHANGED <<arg, ovars>>

SpecRender == InitRender /\ [][ApplyRender]_vars

\* Date, time and title, those that are not empty, with one space between.
HeadOf(e) ==
  e.date \o (IF e.date # <<>> /\ (e.time # <<>> \/ e.title # <<>>) THEN <<" ">> ELSE <<>>)
  \o e.time \o (IF e.time # <<>> /\ e.title # <<>> THEN <<" ">> ELSE <<>>)
  \o e.title
WithLocation(e) ==
  IF e.location = <<>> THEN HeadOf(e)
  ELSE IF HeadOf(e) = <<>> THEN e.location
  ELSE HeadOf(e) \o <<" @ ">> \o e.location
\* The line of an entry as the claim words it: " U+2022 <recurrence>" appended
\* whenever there is a recurrence.
LineAsStated(e) ==
  IF e.recurrence = None THEN WithLocation(e)
  ELSE WithLocation(e) \o <<" U+2022 ">> \o RenderRecurrence(Unwrap(e.recurrence))
\* The same, the recurrence standing alone when nothing precedes it.
LineAmended(e) ==
  IF e.recurrence # None /\ WithLocation(e) = <<>>
  THEN RenderRecurrence(Unwrap(e.recurrence))
  ELSE LineAsStated(e)

\* C14 (as stated): every line is date, time and title joined by spaces,
\* then " @ <location>", then " U+2022 <recurrence>", one line per entry in order.
C14_RenderAsStated ==
  (fdone /\ arg # <<>>) =>
    Split(ret, "\n") = [i \in 1..Len(arg) |-> LineAsStated(arg[i])]

\* C14 (amended): as stated, except that the recurrence text stands alone,
\* without " U+2022 ", when date, time, title and location are all empty; no
\* " @ " appears in the line of an entry without location.
C14_RenderLines ==
  (fdone /\ arg # <<>>) =>
    /\ Split(ret, "\n") = [i \in 1..Len(arg) |-> LineAmended(arg[i])]
    /\ \A i \in 1..Len(arg) :
         arg[i].location = <<>> =>
           \A k \in 1..Len(Split(ret, "\n")[i]) : Split(ret, "\n")[i][k] # " @ "

\* A full entry with a custom recurrence, then an entry with a location only.
C14_Witness ==
  /\ fdone
  /\ Len(arg) = 2
  /\ ret = <<"2025-01-01", " ", "10:00 - 12:00", " ", "Sample Lecture", " @ ", "Room 101",
              " U+2022 ", "BIWEEKLY", "\n", "Room 101">>

\* ---------------------------------------------------------------- client.rs
\* dom.rs find_input_value for the selector input[name='<name>'].
FindInputValue(doc, name, attr) ==
  LET node == FirstNamed(doc.inputs, name) IN
  IF node = None THEN None ELSE Unwrap(node).attrs[attr]

\* client.rs 89-91: the token, kept only when it is not empty.
AjaxToken(doc) ==
  LET v == FindInputValue(doc, "ajax-token", "value") IN
  IF IsSome(v) /\ Unwrap(v) # <<>> THEN v ELSE None

\* A fetch that is taken to have succeeded whatever the transport did.
FetchFailedNever(resp) == FALSE

\* get_with_headers / post_form_with_headers return Err when sending the
\* request or reading the body fails; the caller's `?` then returns.
FetchFailed(resp) == resp.transport # "ok"

\* Any status taken for a success.
StatusIsSuccessAlways(status) == TRUE

\* StatusCode::is_success
StatusIsSuccess(status) == status >= 200 /\ status < 300

\* The key source chain without its error case: an empty key stands in.
FlowKeyOrEmpty(first, entry_url) ==
  LET k1 == ExtractFlowKeyFromHtml(first.body) IN
  IF IsSome(k1) THEN k1
  ELSE LET k2 == ExtractFlowKeyFromUrl(first.final_url) IN
       IF IsSome(k2) THEN k2
       ELSE LET k3 == ExtractFlowKeyFromUrl(entry_url) IN
            IF IsSome(k3) THEN k3 ELSE Some(<<>>)

\* The chain asking the requested entry URL before the final URL.
FlowKeyRequestedUrlFirst(first, entry_url) ==
  LET k1 == ExtractFlowKeyFromHtml(first.body) IN
  IF IsSome(k1) THEN k1
  ELSE LET k2 == ExtractFlowKeyFromUrl(entry_url) IN
       IF IsSome(k2) THEN k2 ELSE ExtractFlowKeyFromUrl(first.final_url)

\* client.rs 144-146: the three sources of the flow-execution key.
FlowKeyOf(first, entry_url) ==
  LET k1 == ExtractFlowKeyFromHtml(first.body) IN
  IF IsSome(k1) THEN k1
  ELSE LET k2 == ExtractFlowKeyFromUrl(first.final_url) IN
       IF IsSome(k2) THEN k2 ELSE ExtractFlowKeyFromUrl(entry_url)

\* client.rs 161-162: the calendar URL from the full page, else the entry page.
IcsUrlOf(full_body, first_body) ==
  LET u1 == FindIcsUrl(full_body, BaseUri) IN
  IF IsSome(u1) THEN u1 ELSE FindIcsUrl(first_body, BaseUri)

\* The Referer of each request as a browser would chain it: the URL requested
\* just before.
RefererOfPrevious(step, prev_url, full_url) == prev_url

\* The Referer each request is given (client.rs 84, 109, 132, 140, 155, 173);
\* prev_url is the URL the call requested just before.
RefererOf(step, prev_url, full_url) ==
  IF step = "feed" THEN full_url ELSE StartPage

Err(msg) == [state |-> "err", err |-> msg, entries |-> <<>>]
Ok(entries) == [state |-> "ok", err |-> "", entries |-> entries]

\* An empty parse returned as a success.
TimetableOutcomeAlwaysOk(entries) == Ok(entries)

\* client.rs 177-182
TimetableOutcome(entries) ==
  IF entries = <<>> THEN Err("no events were parsed from the ICS response")
  ELSE Ok(entries)

Request(step, method, url, prev_url, full_url) ==
  [step |-> step, method |-> method, url |-> url,
   referer |-> RefererOf(step, prev_url, full_url)]

\* ------------------------------------------ the portal: sample responses
InputNode(name, type, value) ==
  [name |-> name, id |-> "", text |-> <<>>,
   attrs |-> [NoAttrs EXCEPT !["value"] = value, !["type"] = Some(<<type>>)]]

StartDocs ==
  { [EmptyDoc EXCEPT !.inputs = << InputNode("ajax-token", "hidden", Some(<<"tok">>)),
                                   InputNode("asdf", "text", None),
                                   InputNode("fdsa", "password", None) >>],
    [EmptyDoc EXCEPT !.inputs = << InputNode("ajax-token", "hidden", Some(<<>>)),
                                   InputNode("ajax-token", "hidden", Some(<<"tok">>)) >>],
    [EmptyDoc EXCEPT !.inputs = << InputNode("ajax-token", "hidden", None) >>],
    EmptyDoc }

HrefFlowWithKey == <<"/plan", "?", "_flowId=", "individualTimetableSchedule-flow", "&",
                     "_flowExecutionKey=", "e4s1">>

LandingDocs ==
  { EmptyDoc,
    [EmptyDoc EXCEPT !.anchors = << [href |-> Some(HrefPlain), text |-> TextStundenplan] >>],
    [EmptyDoc EXCEPT !.anchors = << [href |-> Some(HrefFlowWithKey), text |-> TextLogout] >>] }

EntryDocs ==
  { EmptyDoc,
    [EmptyDoc EXCEPT !.inputs = << InputNode("_flowExecutionKey", "hidden", Some(<<"e1s1">>)) >>],
    [EmptyDoc EXCEPT !.script = <<"var u='", "_flowExecutionKey=", "e7s1", "';">>,
                     !.textareas = << [name |-> "", id |-> "cal_add_1", text |-> UrlCalIcs,
                                       attrs |-> NoAttrs] >>] }

RedirectedEntry == TimetableBase \o <<"?", "_flowId=", "individualTimetableSchedule-flow", "&",
                                      "_flowExecutionKey=", "e2s1">>

\* A redirect target whose _flowExecutionKey parameter has an empty value.
RedirectedEmptyKey == TimetableBase \o <<"?", "_flowId=", "individualTimetableSchedule-flow", "&",
                                         "_flowExecutionKey=">>

FullDocs ==
  { EmptyDoc,
    [EmptyDoc EXCEPT !.anchors = << [href |-> Some(UrlExportIcs), text |-> TextLogout] >>],
    [EmptyDoc EXCEPT !.textareas = << [name |-> "", id |-> "ical_x", text |-> MailtoCalendar,
                                       attrs |-> NoAttrs] >>] }

EventLecture ==
  << Prop("SUMMARY", Some(<<"Lecture">>)), Prop("DTSTART", Some(DtLocal)),
     Prop("DTEND", Some(DtEndLocal)) >>
EventEmpty == << Prop("LOCATION", Some(<<"Room 101">>)) >>

Feeds ==
  { [junk |-> <<>>, blocks |-> <<>>],
    [junk |-> <<"<html>">>, blocks |-> <<>>],
    [junk |-> <<>>, blocks |-> << [ok |-> TRUE, events |-> <<EventEmpty>>] >>],
    [junk |-> <<>>, blocks |-> << [ok |-> FALSE, events |-> <<>>],
                                  [ok |-> TRUE, events |-> <<EventEmpty, EventLecture>>] >>] }

Response(transport, status, body, final_url) ==
  [transport |-> transport, status |-> status, body |-> body, final_url |-> final_url]

\* What may come back for a request of `url`: a transport failure while
\* sending, one while reading the body, or a response with one of `bodies`,
\* arriving from `url` itself or from one of the redirect targets.
Responses(url, statuses, bodies, blank, redirects) ==
  { Response(t, 0, blank, url) : t \in {"send_error", "body_error"} }
  \cup { Response("ok", st, b, f) : st \in statuses, b \in bodies, f \in {url} \cup redirects }

\* ------------------------------------------------------------------- login
CallLogin ==
  /\ pc = "idle"
  /\ call' = "login"
  /\ sent' = << Request("start", "GET", StartPage, StartPage, StartPage) >>
  /\ fetched' = NoFetch
  /\ result' = Pending
  /\ pc' = "start"
  /\ UNCHANGED <<jar, loginOk, pvars>>

\* client.rs 83-111: the start page arrives; the token is looked up, the
\* _clickedButtonId cookie is added and the form is posted.
RecvStart ==
  /\ pc = "start"
  /\ \E resp \in Responses(StartPage, {200}, StartDocs, EmptyDoc, {}) :
       /\ fetched' = [fetched EXCEPT !.start = Some(resp)]
       /\ IF FetchFailed(resp)
          THEN /\ result' = Err("failed to load start page")
               /\ pc' = "idle"
               /\ UNCHANGED <<sent, jar>>
          ELSE IF AjaxToken(resp.body) = None
          THEN /\ result' = Err("ajax-token not found on login form")
               /\ pc' = "idle"
               /\ UNCHANGED <<sent, jar>>
          ELSE /\ jar' = jar \cup {"_clickedButtonId"}
               /\ sent' = Append(sent, Request("post", "POST", LoginPost, StartPage, StartPage))
               /\ pc' = "post"
               /\ UNCHANGED result
  /\ UNCHANGED <<call, loginOk, pvars>>

\* client.rs 108-127: the answer to the login POST.  loginOk records that some
\* login POST has been answered with a 2xx status (history of the run; the
\* client itself keeps no such field).
RecvPost ==
  /\ pc = "post"
  /\ \E resp \in Responses(LoginPost, {200, 204, 401, 500}, {EmptyDoc}, EmptyDoc, {}) :
       /\ fetched' = [fetched EXCEPT !.post = Some(resp)]
       /\ pc' = "idle"
       /\ loginOk' = (loginOk \/ (resp.transport = "ok" /\ resp.status \in 200..299))
       /\ IF FetchFailed(resp)
          THEN /\ result' = Err("login request failed")
               /\ UNCHANGED jar
          ELSE IF ~StatusIsSuccess(resp.status)
          THEN /\ result' = Err("login failed with status")
               /\ UNCHANGED jar
          ELSE /\ jar' = jar \cup {"lastRefresh", "sessionRefresh"}
               /\ result' = Ok(<<>>)
  /\ UNCHANGED <<call, sent, pvars>>

\* ----------------------------------------------------------- get_timetable
CallGetTimetable ==
  /\ pc = "idle"
  /\ call' = "get_timetable"
  /\ sent' = << Request("landing", "GET", StartPage, StartPage, StartPage) >>
  /\ fetched' = NoFetch
  /\ result' = Pending
  /\ pc' = "landing"
  /\ UNCHANGED <<jar, loginOk, pvars>>

\* client.rs 131-142
RecvLanding ==
  /\ pc = "landing"
  /\ \E resp \in Responses(StartPage, {200, 403}, LandingDocs, EmptyDoc, {}) :
       /\ fetched' = [fetched EXCEPT !.landing = Some(resp)]
       /\ IF FetchFailed(resp)
          THEN /\ result' = Err("failed to load landing page after login")
               /\ pc' = "idle"
               /\ UNCHANGED sent
          ELSE /\ sent' = Append(sent, Request("entry", "GET", EntryUrl(resp.body),
                                               StartPage, StartPage))
               /\ pc' = "entry"
               /\ UNCHANGED result
  /\ UNCHANGED <<call, jar, loginOk, pvars>>

\* client.rs 139-159
RecvEntry ==
  /\ pc = "entry"
  /\ LET entry_url == sent[2].url IN
     \E resp \in Responses(entry_url, {200}, EntryDocs, EmptyDoc,
                         {RedirectedEntry, RedirectedEmptyKey}) :
       /\ fetched' = [fetched EXCEPT !.entry = Some(resp)]
       /\ IF FetchFailed(resp)
          THEN /\ result' = Err("failed to load timetable entry page")
               /\ pc' = "idle"
               /\ UNCHANGED sent
          ELSE LET flow_key == FlowKeyOf(resp, entry_url) IN
               IF flow_key = None
               THEN /\ result' = Err("could not determine _flowExecutionKey for timetable")
                    /\ pc' = "idle"
                    /\ UNCHANGED sent
               ELSE /\ sent' = Append(sent,
                          Request("full", "GET",
                                  BuildTimetableUri(TimetableBase, FlowId, flow_key),
                                  entry_url, StartPage))
                    /\ pc' = "full"
                    /\ UNCHANGED result
  /\ UNCHANGED <<call, jar, loginOk, pvars>>

\* client.rs 154-175
RecvFull ==
  /\ pc = "full"
  /\ LET full_timetable_url == sent[3].url IN
     \E resp \in Responses(full_timetable_url, {200}, FullDocs, EmptyDoc, {}) :
       /\ fetched' = [fetched EXCEPT !.full = Some(resp)]
       /\ IF FetchFailed(resp)
          THEN /\ result' = Err("failed to load full timetable page")
               /\ pc' = "idle"
               /\ UNCHANGED sent
          ELSE LET ics_url == IcsUrlOf(resp.body, Unwrap(fetched.entry).body) IN
               IF ics_url = None
               THEN /\ result' = Err("could not locate ICS URL in timetable pages")
                    /\ pc' = "idle"
                    /\ UNCHANGED sent
               ELSE /\ sent' = Append(sent, Request("feed", "GET", Unwrap(ics_url),
                                                    full_timetable_url, full_timetable_url))
                    /\ pc' = "feed"
                    /\ UNCHANGED result
  /\ UNCHANGED <<call, jar, loginOk, pvars>>

\* client.rs 172-182
RecvFeed ==
  /\ pc = "feed"
  /\ \E resp \in Responses(sent[4].url, {200}, Feeds, [junk |-> <<>>, blocks |-> <<>>], {}) :
       /\ fetched' = [fetched EXCEPT !.feed = Some(resp)]
       /\ pc' = "idle"
       /\ IF FetchFailed(resp)
          THEN result' = Err("failed to download ICS")
          ELSE result' = TimetableOutcome(ParseIcs(resp.body))
  /\ UNCHANGED <<call, jar, sent, loginOk, pvars>>

Init == InitClient /\ arg = None /\ ret = None /\ fdone = FALSE

Next ==
  \/ CallLogin
  \/ RecvStart
  \/ RecvPost
  \/ CallGetTimetable
  \/ RecvLanding
  \/ RecvEntry
  \/ RecvFull
  \/ RecvFeed

Spec == Init /\ [][Next]_vars

\* ------------------------------------------------------ claims on the client
Steps == {"start", "post", "landing", "entry", "full", "feed"}
StepsSent == [i \in DOMAIN sent |-> sent[i].step]
IsPrefix(s, t) == Len(s) <= Len(t) /\ \A i \in DOMAIN s : s[i] = t[i]
Answered(step) == IsSome(fetched[step]) /\ Unwrap(fetched[step]).transport = "ok"
Failed(step) == IsSome(fetched[step]) /\ Unwrap(fetched[step]).transport # "ok"

\* C1 (as stated): the landing page is requested only once a login has
\* succeeded.
C1_LandingOnlyAfterLogin ==
  \A i \in DOMAIN sent : sent[i].step = "landing" => loginOk

\* C1 (amended): within one call the requests are issued in the fixed order
\* start, post (login) or landing, entry, full, feed (get_timetable), and a
\* request is issued only after every earlier request of that call has been
\* answered without a transport failure; get_timetable itself does not depend
\* on an earlier login.
C1_StepsInOrderWithinCall ==
  /\ call = "none" => sent = <<>>
  /\ call = "login" => IsPrefix(StepsSent, <<"start", "post">>)
  /\ call = "get_timetable" => IsPrefix(StepsSent, <<"landing", "entry", "full", "feed">>)
  /\ \A i \in DOMAIN sent : i < Len(sent) => Answered(sent[i].step)
  /\ \A s \in Steps : IsSome(fetched[s]) => \E i \in DOMAIN sent : sent[i].step = s

C1_Witness ==
  /\ call = "get_timetable"
  /\ ~loginOk
  /\ Len(sent) = 4
  /\ Answered("full")

\* C2: within one call no request is sent twice, and a transport failure of
\* any request ends the call with an error, that request being the last one
\* sent.
C2_NoRetryFailFast ==
  /\ \A i, j \in DOMAIN sent : i # j => sent[i].step # sent[j].step
  /\ \A s \in Steps :
       Failed(s) => /\ pc = "idle"
                    /\ result.state = "err"
                    /\ sent[Len(sent)].step = s

C2_Witness ==
  /\ Failed("full")
  /\ Len(sent) = 3
  /\ result.state = "err"

\* C3: a login POST answered with a non-success status makes login return an
\* error, and lastRefresh / sessionRefresh are in the jar only if some login
\* POST was answered with a success status.
C3_RefreshCookiesOnlyAfterSuccess ==
  /\ (jar \cap {"lastRefresh", "sessionRefresh"} # {}) => loginOk
  /\ (Answered("post") /\ Unwrap(fetched.post).status \notin 200..299)
       => (result.state = "err" /\ result.err = "login failed with status")

C3_Witness ==
  /\ Answered("post")
  /\ Unwrap(fetched.post).status = 401
  /\ result.state = "err"
  /\ jar = {"_clickedButtonId"}

NoTokenIn(doc) ==
  LET n == FirstNamed(doc.inputs, "ajax-token") IN
  n = None \/ Unwrap(n).attrs["value"] \in {None, Some(<<>>)}
NoFlowKeyFor(resp, entry_url) ==
  /\ ExtractFlowKeyFromHtml(resp.body) = None
  /\ ExtractFlowKeyFromUrl(resp.final_url) = None
  /\ ExtractFlowKeyFromUrl(entry_url) = None
NoIcsUrlIn(full_body, first_body) ==
  FindIcsUrl(full_body, BaseUri) = None /\ FindIcsUrl(first_body, BaseUri) = None

\* C4: when no flow-execution key is found after the entry page, no calendar
\* URL after the full timetable page, or no non-empty ajax-token on the login
\* form, the call ends with the error naming what is missing and sends no
\* further request.
C4_DiscoveryFailuresAreFatal ==
  /\ (Answered("start") /\ NoTokenIn(Unwrap(fetched.start).body))
       => /\ result = Err("ajax-token not found on login form")
          /\ Len(sent) = 1
  /\ (Answered("entry") /\ NoFlowKeyFor(Unwrap(fetched.entry), sent[2].url))
       => /\ result = Err("could not determine _flowExecutionKey for timetable")
          /\ Len(sent) = 2
  /\ (Answered("full") /\ NoIcsUrlIn(Unwrap(fetched.full).body, Unwrap(fetched.entry).body))
       => /\ result = Err("could not locate ICS URL in timetable pages")
          /\ Len(sent) = 3

C4_Witness ==
  /\ Answered("entry")
  /\ NoFlowKeyFor(Unwrap(fetched.entry), sent[2].url)
  /\ pc = "idle"
  /\ result.state = "err"

\* C5: get_timetable never returns Ok with an empty list: a feed that parses
\* to zero entries makes the call return an error.
C5_NoEmptySuccess ==
  /\ (call = "get_timetable" /\ result.state = "ok") => result.entries # <<>>
  /\ (Answered("feed") /\ ParseIcs(Unwrap(fetched.feed).body) = <<>>)
       => result = Err("no events were parsed from the ICS response")

C5_Witness ==
  /\ Answered("feed")
  /\ Unwrap(fetched.feed).body.blocks # <<>>
  /\ ParseIcs(Unwrap(fetched.feed).body) = <<>>
  /\ result.state = "err"

\* C6 (as stated): every GET of get_timetable after the first carries as its
\* Referer the URL requested immediately before it.
C6_RefererIsPreviousPage ==
  call = "get_timetable" => \A i \in 2..Len(sent) : sent[i].referer = sent[i - 1].url

\* C6 (amended): the start-page, landing, entry and full-timetable GETs (and
\* the login POST) carry the start page URL as Referer; the feed GET carries
\* the URL of the full timetable page.
C6_RefererOfEachRequest ==
  \A i \in DOMAIN sent :
    IF sent[i].step = "feed"
    THEN sent[i].referer = sent[3].url /\ sent[3].step = "full"
    ELSE sent[i].referer = StartPage

C6_Witness ==
  /\ Len(sent) = 4
  /\ sent[2].url # StartPage
  /\ sent[3].referer # sent[2].url
  /\ sent[4].referer = sent[3].url

\* The key each of the three sources yields for the entry response received.
KeyFromBody == ExtractFlowKeyFromHtml(Unwrap(fetched.entry).body)
KeyFromFinalUrl == ExtractFlowKeyFromUrl(Unwrap(fetched.entry).final_url)
KeyFromRequestedUrl == ExtractFlowKeyFromUrl(sent[2].url)
KeyByPriority ==
  IF KeyFromBody # None THEN KeyFromBody
  ELSE IF KeyFromFinalUrl # None THEN KeyFromFinalUrl
  ELSE KeyFromRequestedUrl

\* C16: the key in the full-timetable URL is the one of the entry page body
\* if any, else the one of the final URL of the entry response, else the one
\* of the requested entry URL; the error is raised exactly when none of the
\* three yields a key, and the URL is the timetable base with _flowId and
\* then exactly that key.
C16_FlowKeyPriority ==
  Answered("entry") =>
    /\ (result = Err("could not determine _flowExecutionKey for timetable"))
         <=> (KeyFromBody = None /\ KeyFromFinalUrl = None /\ KeyFromRequestedUrl = None)
    /\ KeyByPriority # None =>
         /\ Len(sent) >= 3
         /\ sent[3].step = "full"
         /\ sent[3].url = TimetableBase \o <<"?", "_flowId=">> \o FlowId
                            \o <<"&", "_flowExecutionKey=">> \o Unwrap(KeyByPriority)

\* The body holds no key, the response came from a redirect target with one
\* key and the requested URL carried another: the redirect target's is used.
C16_Witness ==
  /\ Answered("entry")
  /\ KeyFromBody = None
  /\ IsSome(KeyFromFinalUrl)
  /\ IsSome(KeyFromRequestedUrl)
  /\ KeyFromFinalUrl # KeyFromRequestedUrl
  /\ Len(sent) >= 3
  /\ ExtractFlowKeyFromUrl(sent[3].url) = KeyFromFinalUrl

====
